---- MODULE Spec2Model ----
(***************************************************************************)
(* Model of the two diagnostic tools of lcdproc_g15:                       *)
(*   debug/debug_rgb.py   the backlight-change monitor                     *)
(*   debug/debug_keys.py  the key-event monitor                            *)
(* Each tool is a single-threaded program.  Its position is a program      *)
(* counter (rpc, kpc); the operating system (attribute files, wall clock,  *)
(* event queues, the operator's interrupt) is the environment.             *)
(* SpecRgb is the backlight monitor, SpecKeys the key-event monitor.       *)
(***************************************************************************)
EXTENDS Integers, Sequences, FiniteSets, TLC

\* ------------------------------------------------------------------------
\* Bounds of the model
\* ------------------------------------------------------------------------
MaxClock == 1

\* ========================================================================
\* debug_rgb.py
\* ========================================================================
LED_BRIGHTNESS == "/sys/class/leds/g15::kbd_backlight/brightness"

LED_COLOR == "/sys/class/leds/g15::kbd_backlight/color"

POWER_BRIGHTNESS == "/sys/class/leds/g15::power_on_backlight_val/brightness"

POWER_COLOR == "/sys/class/leds/g15::power_on_backlight_val/color"

Paths == {LED_BRIGHTNESS, LED_COLOR, POWER_BRIGHTNESS, POWER_COLOR}

\* The keys of the state dict in the order get_rgb_state reads them, which is
\* also the order the change detection walks them.
Fields == <<"kbd_brightness", "kbd_color", "power_brightness", "power_color">>

FieldSet == {Fields[i] : i \in 1..Len(Fields)}

PathOf == [kbd_brightness |-> LED_BRIGHTNESS, kbd_color |-> LED_COLOR,
           power_brightness |-> POWER_BRIGHTNESS, power_color |-> POWER_COLOR]

\* A string is a sequence of characters.
ERROR == <<"E", "R", "R", "O", "R">>

Whitespace == {" ", "\n", "\t"}

\* What an attribute file can hold: the kernel writes a number or a colour
\* followed by a newline; the values differ in their surrounding whitespace
\* as well as in their text.
Contents == {<<"0", "\n">>, <<"1", "\n">>, <<" ", "1">>}

Missing == [readable |-> FALSE, content |-> <<>>]

FileStates == {Missing} \cup {[readable |-> TRUE, content |-> c] : c \in Contents}

RECURSIVE lstrip(_)
lstrip(s) ==
    IF s # <<>> /\ Head(s) \in Whitespace THEN lstrip(Tail(s)) ELSE s

RECURSIVE rstrip(_)
rstrip(s) ==
    IF s # <<>> /\ s[Len(s)] \in Whitespace
    THEN rstrip(SubSeq(s, 1, Len(s) - 1)) ELSE s

\* str.strip()
strip(s) == rstrip(lstrip(s))

\* The body of read_file's try block: open, read, strip.  An interrupt that
\* arrives while the body runs is raised inside it as KeyboardInterrupt.
try_read(file, intr) ==
    IF intr THEN [exc |-> "KeyboardInterrupt", ret |-> <<>>]
    ELSE IF ~file.readable THEN [exc |-> "OSError", ret |-> <<>>]
    ELSE [exc |-> "none", ret |-> strip(file.content)]

\* A bug: no except clause, every failure leaves read_file.
read_file_propagates(file, intr) == try_read(file, intr)

\* A bug: a failed read yields the empty string.
read_file_empty(file, intr) ==
    LET a == try_read(file, intr)
    IN  IF a.exc # "none" THEN [exc |-> "none", ret |-> <<>>] ELSE a

\* read_file: the bare except turns every exception into "ERROR".
read_file(file, intr) ==
    LET a == try_read(file, intr)
    IN  IF a.exc # "none" THEN [exc |-> "none", ret |-> ERROR] ELSE a

\* time.strftime('%H:%M:%S.%f')[:-3] of a clock counting seconds:
\* time.strftime has no %f, which stays as the three characters ".%f" that
\* the slice removes.
strftime(t) == <<(t \div 3600) % 24, (t \div 60) % 60, t % 60>>

StateKeys == FieldSet \cup {"timestamp"}

\* A dict not yet filled in.
NoState == [k \in StateKeys |-> <<>>]

RECURSIVE changes_from(_, _, _)
\* The for loop of lines 75-81 from the i-th key on.
changes_from(last, cur, i) ==
    IF i > Len(Fields) THEN <<>>
    ELSE LET key == Fields[i]
         IN  (IF cur[key] # last[key]
              THEN <<[param |-> key, old |-> last[key], new |-> cur[key]]>>
              ELSE <<>>) \o changes_from(last, cur, i + 1)

\* A bug: the last key is never compared.
detect_changes_short(last, cur) ==
    LET all == changes_from(last, cur, 1)
    IN  SelectSeq(all, LAMBDA c : c.param # Fields[Len(Fields)])

detect_changes(last, cur) == changes_from(last, cur, 1)

\* A bug: the snapshot is replaced in every iteration.
next_last_state_always(last, cur, chg) == cur

\* A bug: the snapshot is never replaced.
next_last_state_never(last, cur, chg) == last

\* Lines 83-88: last_state = current_state only under `if changes`.
next_last_state(last, cur, chg) == IF chg # <<>> THEN cur ELSE last

\* A bug: the check inverted.
needs_root_inverted(uid) == uid = 0

\* Line 96: os.geteuid() != 0
needs_root(uid) == uid # 0

\* The value each field was last printed with, after `block` is printed:
\* the initial printout shows every field, a change report the new value of
\* each field it lists.
shown_after(shown, block) ==
    IF block.kind = "initial" THEN block.values
    ELSE IF block.kind = "change"
    THEN [f \in FieldSet |->
            IF \E i \in 1..Len(block.changes) : block.changes[i].param = f
            THEN LET i == CHOOSE i \in 1..Len(block.changes) : block.changes[i].param = f
                 IN  block.changes[i].new
            ELSE shown[f]]
    ELSE shown

VARIABLES
    euid,          \* effective uid of the process
    rpc,           \* position of debug_rgb.py
    phase,         \* "initial" (line 62) or "loop" (lines 69-90)
    exitStatus,    \* process exit status, -1 while running
    exc,           \* the exception that ended the process, or "none"
    clock,         \* wall clock, seconds
    rdIdx,         \* get_rgb_state: index of the field read next
    sample,        \* get_rgb_state: the dict under construction
    current_state, \* line 71
    last_state,    \* lines 62, 88
    changes,       \* line 74
    out,           \* what the current loop iteration (or the start-up) printed
    shown,         \* history: per field, the value printed last
    lastRead,      \* history: input and outcome of the latest read_file call
    sampleOk,      \* history: per field, whether the read of `sample` succeeded
    curOk,         \* history: the same for the sample compared last
    prevOk,        \* history: the same for the sample before that one
    anyRead,       \* history: read_file has been called
    intrNow        \* history: the latest step delivered an interrupt

rvars == <<euid, rpc, phase, exitStatus, exc, clock, rdIdx, sample,
           current_state, last_state, changes, out, shown, lastRead, sampleOk,
           curOk, prevOk, anyRead, intrNow>>

VARIABLES
    argHelp,     \* sys.argv[1] is -h or --help
    enumerated,  \* evdev.list_devices(): the capability set of each device
    kpc,         \* position of debug_keys.py
    devices,     \* line 72: the monitored devices, as indices into enumerated
    ready,       \* line 47: r
    ridx,        \* line 48: index in r of the device read next
    kout,        \* standard output, one record per printed block
    kexc,        \* the exception that ended the process, or "none"
    readLog,     \* history: every event read, with its device, in order
    kevent       \* history: what the latest step met

kvars == <<argHelp, enumerated, kpc, devices, ready, ridx, kout, kexc, readLog,
           kevent>>

vars == <<rvars, kvars>>

AllOk == [f \in FieldSet |-> TRUE]

NoRead == [key |-> "", readable |-> FALSE, content |-> <<>>, intr |-> FALSE,
           ret |-> <<>>]

\* The tool that is not running stays as it is.
RgbIdle ==
    /\ euid = 0 /\ rpc = "idle" /\ phase = "initial" /\ exitStatus = -1
    /\ exc = "none" /\ clock = 0 /\ rdIdx = 1 /\ sample = NoState
    /\ current_state = NoState /\ last_state = NoState /\ changes = <<>>
    /\ out = <<>> /\ shown = [f \in FieldSet |-> <<>>] /\ lastRead = NoRead
    /\ sampleOk = AllOk /\ curOk = AllOk /\ prevOk = AllOk /\ anyRead = FALSE
    /\ intrNow = FALSE

KeysIdle ==
    /\ argHelp = FALSE /\ enumerated = <<>> /\ kpc = "idle" /\ devices = <<>>
    /\ ready = <<>> /\ ridx = 1 /\ kout = <<>> /\ kexc = "none"
    /\ readLog = <<>> /\ kevent = "none"

InitRgb ==
    /\ KeysIdle
    /\ euid \in {0, 1000}
    /\ rpc = "start"
    /\ phase = "initial"
    /\ exitStatus = -1
    /\ exc = "none"
    /\ clock = 0
    /\ rdIdx = 1
    /\ sample = NoState
    /\ current_state = NoState
    /\ last_state = NoState
    /\ changes = <<>>
    /\ out = <<>>
    /\ shown = [f \in FieldSet |-> <<>>]
    /\ lastRead = NoRead
    /\ sampleOk = AllOk
    /\ curOk = AllOk
    /\ prevOk = AllOk
    /\ anyRead = FALSE
    /\ intrNow = FALSE

\* Lines 95-100 and 50-59: the privilege check, then the banner.
Main ==
    /\ rpc = "start"
    /\ IF needs_root(euid)
       THEN /\ out' = Append(out, [kind |-> "needroot"])
            /\ exitStatus' = 1
            /\ rpc' = "exited"
       ELSE /\ out' = Append(out, [kind |-> "banner"])
            /\ exitStatus' = exitStatus
            /\ rpc' = "read"
    /\ intrNow' = FALSE
    /\ UNCHANGED <<euid, phase, exc, clock, rdIdx, sample, current_state,
                   last_state, changes, shown, lastRead, sampleOk, curOk, prevOk,
                   anyRead>>
    /\ UNCHANGED kvars

\* One read_file call of get_rgb_state (lines 29-32).  Its inputs: the state
\* the attribute file is in when it is opened, and whether the operator's
\* interrupt arrives inside the try block.
ReadAttr(file, intr) ==
    /\ rpc = "read"
    /\ LET key == Fields[rdIdx]
           res == read_file(file, intr)
       IN  /\ anyRead' = TRUE
           /\ intrNow' = intr
           /\ lastRead' = [key |-> key,
                           readable |-> ~intr /\ file.readable,
                           content |-> IF intr THEN <<>> ELSE file.content,
                           intr |-> intr, ret |-> res.ret]
           /\ IF res.exc = "none"
              THEN /\ sample' = [sample EXCEPT ![key] = res.ret]
                   /\ sampleOk' = [sampleOk EXCEPT ![key] = ~intr /\ file.readable]
                   /\ IF rdIdx < Len(Fields)
                      THEN rdIdx' = rdIdx + 1 /\ rpc' = "read"
                      ELSE rdIdx' = 1 /\ rpc' = "stamp"
                   /\ UNCHANGED <<exc, exitStatus, out>>
              ELSE IF res.exc = "KeyboardInterrupt" /\ phase = "loop"
              THEN /\ out' = Append(out, [kind |-> "exit"])
                   /\ rpc' = "done"
                   /\ exitStatus' = 0
                   /\ UNCHANGED <<sample, sampleOk, rdIdx, exc>>
              ELSE /\ out' = Append(out, [kind |-> "traceback", exc |-> res.exc])
                   /\ rpc' = "crashed"
                   /\ exc' = res.exc
                   /\ UNCHANGED <<sample, sampleOk, rdIdx, exitStatus>>
    /\ UNCHANGED <<euid, phase, clock, current_state, last_state, changes, shown,
                   curOk, prevOk>>
    /\ UNCHANGED kvars

\* The last entry of get_rgb_state (line 33), then either the initial
\* printout (lines 62-67) or the return to the loop body (line 71).  The
\* record of the latest read_file call ends with the sample.
Stamp ==
    /\ rpc = "stamp"
    /\ LET st == [sample EXCEPT !["timestamp"] = strftime(clock)]
           block == [kind |-> "initial", ts |-> st["timestamp"],
                     values |-> [f \in FieldSet |-> st[f]]]
       IN  IF phase = "initial"
           THEN /\ last_state' = st
                /\ current_state' = current_state
                /\ out' = Append(out, block)
                /\ shown' = shown_after(shown, block)
                /\ phase' = "loop"
                /\ rpc' = "read"
                /\ curOk' = sampleOk
                /\ prevOk' = sampleOk
           ELSE /\ current_state' = st
                /\ last_state' = last_state
                /\ out' = out
                /\ shown' = shown
                /\ phase' = phase
                /\ rpc' = "compare"
                /\ curOk' = sampleOk
                /\ prevOk' = prevOk
    /\ sample' = NoState
    /\ sampleOk' = AllOk
    /\ lastRead' = NoRead
    /\ intrNow' = FALSE
    /\ UNCHANGED <<euid, exitStatus, exc, clock, rdIdx, changes, anyRead>>
    /\ UNCHANGED kvars

\* Lines 73-88: detect the changes, print them, replace the snapshot.
Compare ==
    /\ rpc = "compare"
    /\ LET chg == detect_changes(last_state, current_state)
           block == [kind |-> "change", ts |-> current_state["timestamp"],
                     changes |-> chg]
       IN  /\ changes' = chg
           /\ out' = IF chg # <<>> THEN <<block>> ELSE <<>>
           /\ shown' = IF chg # <<>> THEN shown_after(shown, block) ELSE shown
           /\ last_state' = next_last_state(last_state, current_state, chg)
    /\ rpc' = "sleep"
    /\ intrNow' = FALSE
    /\ UNCHANGED <<euid, phase, exitStatus, exc, clock, rdIdx, sample,
                   current_state, lastRead, sampleOk, curOk, prevOk, anyRead>>
    /\ UNCHANGED kvars

\* Line 90: time.sleep(0.1) returns after dt clock seconds have begun, and the
\* next iteration starts.  `changes` is dead until line 74 assigns it again,
\* `out` starts over for the new iteration, and the sample compared last is
\* from now on the earlier one.
Sleep(dt) ==
    /\ rpc = "sleep"
    /\ clock + dt <= MaxClock
    /\ clock' = clock + dt
    /\ rpc' = "read"
    /\ changes' = <<>>
    /\ out' = <<>>
    /\ prevOk' = curOk
    /\ intrNow' = FALSE
    /\ UNCHANGED <<euid, phase, exitStatus, exc, rdIdx, sample, current_state,
                   last_state, shown, lastRead, sampleOk, curOk, anyRead>>
    /\ UNCHANGED kvars

\* The operator's interrupt arriving outside read_file's try block: inside
\* the loop it reaches line 92, before the loop nothing catches it.
Interrupt ==
    /\ rpc \in {"stamp", "compare", "sleep"}
    /\ intrNow' = TRUE
    /\ IF phase = "loop"
       THEN /\ out' = Append(out, [kind |-> "exit"])
            /\ rpc' = "done"
            /\ exitStatus' = 0
            /\ exc' = exc
       ELSE /\ out' = Append(out, [kind |-> "traceback", exc |-> "KeyboardInterrupt"])
            /\ rpc' = "crashed"
            /\ exitStatus' = exitStatus
            /\ exc' = "KeyboardInterrupt"
    /\ UNCHANGED <<euid, phase, clock, rdIdx, sample, current_state, last_state,
                   changes, shown, lastRead, sampleOk, curOk, prevOk, anyRead>>
    /\ UNCHANGED kvars

NextRgb ==
    \/ Main
    \/ \E file \in FileStates, intr \in BOOLEAN : ReadAttr(file, intr)
    \/ Stamp
    \/ Compare
    \/ \E dt \in 0..1 : Sleep(dt)
    \/ Interrupt

\* ========================================================================
\* debug_keys.py
\* ========================================================================
MaxDevices == 2

MaxBatch == 2

MaxLog == 2

EV_SYN == "EV_SYN"

EV_KEY == "EV_KEY"

EV_REL == "EV_REL"

\* evdev.KeyEvent.key_down
key_down == "key_down"

\* The capability sets an input device can have: a keyboard, and a pointer
\* without buttons.
DeviceCaps == {{EV_SYN, EV_KEY}, {EV_SYN, EV_REL}}

\* The events a device can deliver: key A pressed, key B pressed, key A
\* released, key A autorepeating, a relative movement of 1.
Events ==
    {[type |-> EV_KEY, code |-> 30, value |-> 1],
     [type |-> EV_KEY, code |-> 48, value |-> 1],
     [type |-> EV_KEY, code |-> 30, value |-> 0],
     [type |-> EV_KEY, code |-> 30, value |-> 2],
     [type |-> EV_REL, code |-> 0, value |-> 1]}

\* Sequences over S of length lo..hi.
SeqsOf(S, lo, hi) == UNION {[1..n -> S] : n \in lo..hi}

\* What one device.read() can do: deliver the pending events, find nothing
\* pending, or fail because the device is gone.
ReadOutcomes ==
    {[exc |-> "none", events |-> b] : b \in SeqsOf(Events, 1, MaxBatch)}
    \cup {[exc |-> "BlockingIOError", events |-> <<>>],
          [exc |-> "OSError", events |-> <<>>]}

\* evdev.categorize of an EV_KEY event: a KeyEvent whose keystate is read
\* from the event's value.
categorize(event) ==
    [scancode |-> event.code,
     keystate |-> CASE event.value = 0 -> "key_up"
                    [] event.value = 1 -> "key_down"
                    [] event.value = 2 -> "key_hold"]

\* A bug: the key state is not looked at.
is_printed_any_key(event) == event.type = EV_KEY

\* Lines 51-53: the two conditions under which an event is printed.
is_printed(event) ==
    event.type = EV_KEY /\ categorize(event).keystate = key_down

RECURSIVE print_events(_, _, _)
\* Lines 50-57: the blocks printed for the events of one read, from the
\* i-th on.
print_events(dev, events, i) ==
    IF i > Len(events) THEN <<>>
    ELSE (IF is_printed(events[i])
          THEN <<[kind |-> "key", device |-> dev, code |-> events[i].code]>>
          ELSE <<>>) \o print_events(dev, events, i + 1)

\* A bug: every device is monitored.
has_key_capability_all(caps) == TRUE

\* Line 29
has_key_capability(caps) == EV_KEY \in caps

RECURSIVE find_from(_, _)
\* The for loop of find_all_devices (lines 19-33) from the i-th path on:
\* the devices appended and the blocks printed.
find_from(paths, i) ==
    IF i > Len(paths) THEN [devices |-> <<>>, out |-> <<>>]
    ELSE LET rest == find_from(paths, i + 1)
             keep == has_key_capability(paths[i])
         IN  [devices |-> (IF keep THEN <<i>> ELSE <<>>) \o rest.devices,
              out |-> <<[kind |-> "device", device |-> i]>>
                      \o (IF keep THEN <<[kind |-> "monitoring", device |-> i]>>
                          ELSE <<>>)
                      \o rest.out]

\* A bug: an empty read ends the program like any other error.
is_swallowed_never(e) == FALSE

\* Line 58: except BlockingIOError
is_swallowed(e) == e = "BlockingIOError"


InitKeys ==
    /\ RgbIdle
    /\ argHelp \in BOOLEAN
    /\ enumerated \in SeqsOf(DeviceCaps, 0, MaxDevices)
    /\ kpc = "start"
    /\ devices = <<>>
    /\ ready = <<>>
    /\ ridx = 1
    /\ kout = <<>>
    /\ kexc = "none"
    /\ readLog = <<>>
    /\ kevent = "none"

\* main (lines 64-78) up to the call of monitor_events, find_all_devices
\* included.
KMain ==
    /\ kpc = "start"
    /\ kevent' = "none"
    /\ IF argHelp
       THEN /\ kout' = <<[kind |-> "doc"]>>
            /\ kpc' = "returned"
            /\ devices' = devices
       ELSE LET found == find_from(enumerated, 1)
                head == <<[kind |-> "title"]>> \o found.out
                        \o <<[kind |-> "total", n |-> Len(found.devices)]>>
            IN  /\ devices' = found.devices
                /\ IF found.devices = <<>>
                   THEN /\ kout' = head \o <<[kind |-> "nodevices"]>>
                        /\ kpc' = "returned"
                   ELSE /\ kout' = head \o <<[kind |-> "monitoring_banner"]>>
                        /\ kpc' = "select"
    /\ UNCHANGED <<argHelp, enumerated, ready, ridx, kexc, readLog>>
    /\ UNCHANGED rvars

\* Line 47: select returns the ready devices, a non-empty part of the
\* monitored ones in their order.
Select(S) ==
    /\ kpc = "select"
    /\ S # {}
    /\ ready' = SelectSeq(devices, LAMBDA d : d \in S)
    /\ ridx' = 1
    /\ kpc' = "read"
    /\ kevent' = "none"
    /\ UNCHANGED <<argHelp, enumerated, devices, kout, kexc, readLog>>
    /\ UNCHANGED rvars

\* Lines 48-59 for one device of r: read its events and print the key
\* presses, or meet an exception.
ReadDevice(res) ==
    /\ kpc = "read"
    /\ Len(readLog) + Len(res.events) <= MaxLog
    /\ kevent' = res.exc
    /\ LET dev == ready[ridx]
       IN  IF res.exc = "none" \/ is_swallowed(res.exc)
           THEN /\ kout' = kout \o print_events(dev, res.events, 1)
                /\ readLog' = readLog \o
                      [i \in 1..Len(res.events) |->
                          [device |-> dev, event |-> res.events[i]]]
                /\ IF ridx < Len(ready)
                   THEN ridx' = ridx + 1 /\ kpc' = "read" /\ ready' = ready
                   ELSE ridx' = 1 /\ kpc' = "select" /\ ready' = <<>>
                /\ kexc' = kexc
           ELSE /\ kout' = Append(kout, [kind |-> "traceback", exc |-> res.exc])
                /\ kpc' = "crashed"
                /\ kexc' = res.exc
                /\ UNCHANGED <<readLog, ridx, ready>>
    /\ UNCHANGED <<argHelp, enumerated, devices>>
    /\ UNCHANGED rvars

\* The operator's interrupt: inside monitor_events it reaches line 61,
\* before that nothing catches it.
KInterrupt ==
    /\ kpc \in {"start", "select", "read"}
    /\ kevent' = "KeyboardInterrupt"
    /\ IF kpc = "start"
       THEN /\ kout' = Append(kout, [kind |-> "traceback", exc |-> "KeyboardInterrupt"])
            /\ kpc' = "crashed"
            /\ kexc' = "KeyboardInterrupt"
       ELSE /\ kout' = Append(kout, [kind |-> "exit"])
            /\ kpc' = "done"
            /\ kexc' = kexc
    /\ UNCHANGED <<argHelp, enumerated, devices, ready, ridx, readLog>>
    /\ UNCHANGED rvars

NextKeys ==
    \/ KMain
    \/ \E S \in SUBSET {devices[i] : i \in 1..Len(devices)} : Select(S)
    \/ \E res \in ReadOutcomes : ReadDevice(res)
    \/ KInterrupt

SpecRgb == InitRgb /\ [][NextRgb]_vars

SpecKeys == InitKeys /\ [][NextKeys]_vars

\* ========================================================================
\* Properties of debug_rgb.py, checked under SpecRgb
\* ========================================================================
\* The step in which one loop iteration compares its sample.
CompareStep == rpc = "compare" /\ rpc' = "sleep"

\* The fields on which two snapshots differ.
Differing(a, b) == {f \in FieldSet : a[f] # b[f]}

\* The change entries an iteration printed.
Reported(o) == IF o = <<>> THEN <<>> ELSE o[1].changes

\* C1: in every loop iteration the fields reported are exactly the fields
\* whose values differ between the stored snapshot and the new sample, each
\* once, with old = the stored value and new = the sampled value; the
\* timestamp plays no part.
C1_ReportsExactlyDifferingFields ==
    [][CompareStep =>
        LET F == Differing(last_state, current_state)
            rep == Reported(out')
        IN  /\ {rep[i].param : i \in 1..Len(rep)} = F
            /\ Len(rep) = Cardinality(F)
            /\ \A i \in 1..Len(rep) :
                  /\ rep[i].old = last_state[rep[i].param]
                  /\ rep[i].new = current_state[rep[i].param]
            /\ changes' = rep]_vars

\* An iteration that reported three of the four fields, at a later second
\* than the snapshot it was compared with.
C1_Witness ==
    /\ rpc = "sleep"
    /\ Len(changes) = 3
    /\ Reported(out) = changes
    /\ \E i \in 1..3 : changes[i].old = ERROR
    /\ clock = 1

\* C2: an iteration whose sample equals the stored snapshot on all four
\* fields prints nothing and leaves the snapshot, timestamp included, as it
\* is; inside the loop the snapshot changes only in a comparison that found
\* a differing field.
C2_EqualSampleKeepsSnapshot ==
    [][/\ (CompareStep /\ Differing(last_state, current_state) = {})
            => (out' = <<>> /\ last_state' = last_state)
       /\ (phase = "loop" /\ last_state' # last_state)
            => (CompareStep /\ Differing(last_state, current_state) # {})]_vars

\* An iteration that found no change although the sample is from a later
\* second than the snapshot.
C2_Witness ==
    /\ rpc = "sleep"
    /\ changes = <<>>
    /\ out = <<>>
    /\ current_state["timestamp"] # last_state["timestamp"]
    /\ \A f \in FieldSet : current_state[f] = last_state[f]

\* C3: once the initial snapshot is printed, every field of the stored
\* snapshot is the value printed last for that field, and at the end of an
\* iteration it is also the value read last for that field.
C3_SnapshotIsLastPrinted ==
    /\ phase = "loop" => \A f \in FieldSet : last_state[f] = shown[f]
    /\ rpc = "sleep" => \A f \in FieldSet : last_state[f] = current_state[f]

\* The end of an iteration that reported one field and left three as they
\* were printed before.
C3_Witness ==
    /\ rpc = "sleep"
    /\ Len(changes) = 1
    /\ changes[1].param = "kbd_color"
    /\ shown["kbd_color"] = changes[1].new
    /\ shown["power_color"] = ERROR

\* C4: an interrupt delivered while the tool is in its monitoring loop ends
\* the loop with the exit message.
C4_InterruptEndsLoop ==
    (intrNow /\ phase = "loop") =>
        (rpc = "done" /\ out # <<>> /\ out[Len(out)].kind = "exit")

\* C5: a failing read never leaves read_file; the field becomes "ERROR", a
\* readable field its stripped content, whatever the other reads of the
\* sample did, and the program goes on to the next read (or to the end of
\* the sample) unless an interrupt ends it.
C5_ReadFailureBecomesError ==
    /\ exc # "OSError"
    /\ lastRead.key # "" =>
          /\ ~intrNow => rpc \in {"read", "stamp"}
          /\ sample[lastRead.key] = lastRead.ret
          /\ lastRead.ret = IF lastRead.readable THEN strip(lastRead.content)
                            ELSE ERROR
    /\ rpc = "stamp" =>
          \A f \in FieldSet : (sample[f] = ERROR) <=> ~sampleOk[f]

\* A sample of the loop whose second file could not be opened and whose
\* last file was read normally.
C5_Witness ==
    /\ rpc = "stamp"
    /\ phase = "loop"
    /\ ~sampleOk["kbd_color"]
    /\ sampleOk["kbd_brightness"] /\ sampleOk["power_brightness"]
    /\ lastRead.key = "power_color"
    /\ lastRead.readable
    /\ sample["power_color"] = <<"1">>

\* The entries of `changes` for field f.
EntriesFor(f) == {i \in 1..Len(changes) : changes[i].param = f}

\* C6: at the end of an iteration, a field whose read failed for the first
\* time is reported once as value -> ERROR; a field whose read failed again
\* is "ERROR" and not reported; a field readable again is reported once as
\* ERROR -> value.
C6_FailingAttributeSequence ==
    rpc = "sleep" =>
        \A f \in FieldSet :
            /\ (prevOk[f] /\ ~curOk[f]) =>
                  /\ Cardinality(EntriesFor(f)) = 1
                  /\ \A i \in EntriesFor(f) :
                        changes[i].old # ERROR /\ changes[i].new = ERROR
                  /\ Reported(out) = changes
            /\ (~prevOk[f] /\ ~curOk[f]) =>
                  /\ current_state[f] = ERROR
                  /\ EntriesFor(f) = {}
            /\ (~prevOk[f] /\ curOk[f]) =>
                  /\ Cardinality(EntriesFor(f)) = 1
                  /\ \A i \in EntriesFor(f) :
                        /\ changes[i].old = ERROR
                        /\ changes[i].new = current_state[f]
                        /\ changes[i].new # ERROR
                  /\ Reported(out) = changes

\* The end of an iteration in which one field started failing, one kept
\* failing and one became readable again.
C6_Witness ==
    /\ rpc = "sleep"
    /\ prevOk["kbd_brightness"] /\ ~curOk["kbd_brightness"]
    /\ ~prevOk["kbd_color"] /\ ~curOk["kbd_color"]
    /\ ~prevOk["power_color"] /\ curOk["power_color"]

\* C8: without elevated privileges the tool prints its message and exits
\* with status 1 before any attribute file is read and before the loop;
\* with them it goes on to monitoring.
C8_PrivilegeCheck ==
    /\ euid # 0 =>
          /\ ~anyRead
          /\ rpc \in {"start", "exited"}
          /\ phase = "initial"
          /\ rpc = "exited" => (exitStatus = 1 /\ out = <<[kind |-> "needroot"]>>)
    /\ euid = 0 =>
          /\ rpc # "exited"
          /\ exitStatus # 1
          /\ rpc # "start" => (out # <<>> \/ phase = "loop")

\* The unprivileged run after its exit.
C8_Witness == rpc = "exited" /\ euid = 1000 /\ exitStatus = 1

\* ========================================================================
\* Properties of debug_keys.py, checked under SpecKeys
\* ========================================================================
\* The key presses among the events read, in the order they were read.
KeyPresses ==
    LET downs == SelectSeq(readLog, LAMBDA e : e.event.type = EV_KEY
                                               /\ e.event.value = 1)
    IN  [i \in 1..Len(downs) |->
            [device |-> downs[i].device, code |-> downs[i].event.code]]

\* The key blocks printed, in the order they were printed.
KeyBlocks ==
    LET blocks == SelectSeq(kout, LAMBDA b : b.kind = "key")
    IN  [i \in 1..Len(blocks) |->
            [device |-> blocks[i].device, code |-> blocks[i].code]]

\* C7: the key blocks printed are exactly the key-down events read, in the
\* order they were read; no other event prints anything.
C7_OnlyKeyDownPrinted == KeyBlocks = KeyPresses

\* An autorepeat and then a press were read from two devices in one
\* wake-up, and the one block printed is that of the press.
C7_Witness ==
    /\ Len(readLog) = 2
    /\ readLog[1].event = [type |-> EV_KEY, code |-> 30, value |-> 2]
    /\ readLog[2].event = [type |-> EV_KEY, code |-> 48, value |-> 1]
    /\ readLog[1].device # readLog[2].device
    /\ KeyBlocks = <<[device |-> readLog[2].device, code |-> 48]>>

Monitored == {devices[i] : i \in 1..Len(devices)}

\* C9: after enumeration every enumerated device has been printed, the
\* monitored devices are exactly those with the key capability, in
\* enumeration order, and events are read and printed only for them.
C9_MonitoredAreKeyCapable ==
    (kpc \notin {"start", "crashed"} /\ ~argHelp) =>
        /\ \A i \in 1..Len(enumerated) :
              \E j \in 1..Len(kout) : kout[j] = [kind |-> "device", device |-> i]
        /\ Monitored = {i \in 1..Len(enumerated) : EV_KEY \in enumerated[i]}
        /\ \A i, j \in 1..Len(devices) : i < j => devices[i] < devices[j]
        /\ \A i \in 1..Len(readLog) : readLog[i].device \in Monitored
        /\ \A j \in 1..Len(kout) :
              kout[j].kind \in {"key", "monitoring"} => kout[j].device \in Monitored

\* A device without the key capability was enumerated before one with it,
\* and a key press of the latter is printed.
C9_Witness ==
    /\ Len(enumerated) = 2
    /\ EV_KEY \notin enumerated[1]
    /\ devices = <<2>>
    /\ KeyBlocks # <<>>

\* C10: a read that finds nothing pending prints nothing and changes
\* neither the monitored devices nor the rest of r; the next device of r is
\* read next, or the wait resumes when there is none.
C10_EmptyReadSwallowed ==
    [][(kpc = "read" /\ kevent' = "BlockingIOError") =>
          /\ kout' = kout
          /\ devices' = devices
          /\ readLog' = readLog
          /\ IF ridx < Len(ready)
             THEN kpc' = "read" /\ ridx' = ridx + 1 /\ ready' = ready
             ELSE kpc' = "select"]_vars

\* The first of two ready devices had nothing pending and the second is
\* read next.
C10_Witness ==
    /\ Len(ready) = 2
    /\ ridx = 2
    /\ kpc = "read"
    /\ kevent = "BlockingIOError"
    /\ readLog = <<>>

====
